---- MODULE Spec2Model ----
(***************************************************************************)
(* A model of data_tool/data_processor.py: the date-range filters over     *)
(* CSV rows, Spotify JSON log entries and screenshot files, and the batch  *)
(* functions that drive them over a filesystem.                            *)
(*                                                                         *)
(* Text values are modelled by their parsed shape: a date string           *)
(* "YYYY-MM-DD" is the tuple <<Y,M,D>>, a timestamp string                 *)
(* "YYYY-MM-DDTHH:MM:SSZ" is <<Y,M,D,h,m,s>>, and any other tuple is a     *)
(* string that matches neither format.  A datetime object is a 6-tuple.    *)
(* A POSIX timestamp (a file's mtime) is a number of seconds, counted from *)
(* 2000 in local time over months of 31 days, which orders instants as the *)
(* calendar does and fits TLC's integers.                                  *)
(* A file name is the sequence of its pieces (<<"notes", ".txt">>) and a   *)
(* path is the sequence of its components' names.                          *)
(***************************************************************************)
EXTENDS Integers, Sequences, FiniteSets, TLC

VARIABLES
    fs,          \* the filesystem
    env,         \* the values load_dotenv() / os.getenv() give
    sources,     \* the triples handed to process_data_sources
    start_date,  \* the date range handed to every function
    end_date,
    op,          \* the function running ("" before any call)
    pc,          \* "ready", "loop", "returned" or "raised"
    listing,     \* the sequence the running loop enumerates
    i,           \* the loop's position in listing
    result,      \* the value filter_spotify_data returned
    exc,         \* the exception that propagated out of op
    stdout,      \* the lines printed
    fs0,         \* history: the filesystem before the call
    written      \* history: the files written, in order, with the item they are for

vars == <<fs, env, sources, start_date, end_date,
          op, pc, listing, i, result, exc, stdout, fs0, written>>

(***************************************************************************)
(* Bounds of the model.                                                    *)
(***************************************************************************)
MaxEntries == 2
MaxSources == 3

(***************************************************************************)
(* Python results: a value or a raised exception.                          *)
(***************************************************************************)
Ok(v) == [ok |-> TRUE, val |-> v, exc |-> ""]
Raise(e) == [ok |-> FALSE, val |-> <<>>, exc |-> e]

(***************************************************************************)
(* datetime                                                                *)
(***************************************************************************)
DateFormat == "%Y-%m-%d"
TsFormat == "%Y-%m-%dT%H:%M:%SZ"

ValidDate(s) == s[2] \in 1..12 /\ s[3] \in 1..31
ValidTime(s) == s[4] \in 0..23 /\ s[5] \in 0..59 /\ s[6] \in 0..59

\* strptime, were a date taken at its last second instead of its first
StrptimeEndOfDay(s, fmt) ==
    IF fmt = DateFormat /\ Len(s) = 3 /\ ValidDate(s)
      THEN Ok(<<s[1], s[2], s[3], 23, 59, 59>>)
    ELSE IF fmt = TsFormat /\ Len(s) = 6 /\ ValidDate(s) /\ ValidTime(s)
      THEN Ok(s)
    ELSE Raise("ValueError")

\* datetime.strptime(s, fmt): the datetime, or ValueError when s does not match fmt
Strptime(s, fmt) ==
    IF fmt = DateFormat /\ Len(s) = 3 /\ ValidDate(s)
      THEN Ok(<<s[1], s[2], s[3], 0, 0, 0>>)
    ELSE IF fmt = TsFormat /\ Len(s) = 6 /\ ValidDate(s) /\ ValidTime(s)
      THEN Ok(s)
    ELSE Raise("ValueError")

\* datetime.__lt__ / __le__ on naive datetimes: field by field, most significant first
DtLess(a, b) == \E k \in 1..6 : a[k] < b[k] /\ \A j \in 1..(k - 1) : a[j] = b[j]
DtLeq(a, b) == a = b \/ DtLess(a, b)

\* the chained comparison  start <= x <= end
InRange(start, x, end) == DtLeq(start, x) /\ DtLeq(x, end)

(***************************************************************************)
(* The filesystem: a function from the paths that exist to their nodes.    *)
(***************************************************************************)
DirNode == [kind |-> "dir"]
FileNode(data, mtime) == [kind |-> "file", data |-> data, mtime |-> mtime]

\* the POSIX timestamp of the instant <<Y,M,D,h,m,s>>
Timestamp(d) ==
    (((((d[1] - 2000) * 12 + (d[2] - 1)) * 31 + (d[3] - 1)) * 24 + d[4]) * 60 + d[5]) * 60
    + d[6]

\* fromtimestamp, were the clock read in another time zone
FromTimestampUtc(n) ==
    LET days == n \div 86400
    IN  <<2000 + (days \div 372), ((days \div 31) % 12) + 1, (days % 31) + 1,
          ((n \div 3600) + 5) % 24, (n \div 60) % 60, n % 60>>

\* datetime.fromtimestamp(n): the local datetime of the POSIX timestamp n
FromTimestamp(n) ==
    LET days == n \div 86400
    IN  <<2000 + (days \div 372), ((days \div 31) % 12) + 1, (days % 31) + 1,
          (n \div 3600) % 24, (n \div 60) % 60, n % 60>>

\* the clock reading stamped on files the program creates
Now == Timestamp(<<2026, 1, 15, 9, 0, 0>>)

Exists(f, p) == p \in DOMAIN f
IsDir(f, p) == Exists(f, p) /\ f[p].kind = "dir"
IsFile(f, p) == Exists(f, p) /\ f[p].kind = "file"
Parent(p) == SubSeq(p, 1, Len(p) - 1)
Join(p, name) == Append(p, name)
Basename(p) == p[Len(p)]
ParentOk(f, p) == Len(p) = 1 \/ IsDir(f, Parent(p))

\* os.makedirs(p, exist_ok=True)
Makedirs(f, p) ==
    LET prefixes == {SubSeq(p, 1, k) : k \in 1..Len(p)}
        missing == {q \in prefixes : ~Exists(f, q)}
    IN  IF \E q \in prefixes : IsFile(f, q)
          THEN Raise("FileExistsError")
          ELSE Ok([q \in missing |-> DirNode] @@ f)

\* the names os.listdir(p) returns, as a set (the order is the caller's choice)
ListdirNames(f, p) ==
    {Basename(q) : q \in {r \in DOMAIN f : Len(r) = Len(p) + 1 /\ Parent(r) = p}}

\* open(p, "w") ... write ... close
WriteFile(f, p, data) ==
    IF IsDir(f, p) THEN Raise("IsADirectoryError")
    ELSE IF ~ParentOk(f, p) THEN Raise("FileNotFoundError")
    ELSE Ok((p :> FileNode(data, Now)) @@ f)

\* all orders of a finite set, as sequences
Perms(S) == {s \in [1..Cardinality(S) -> S] : \A a, b \in DOMAIN s : a # b => s[a] # s[b]}

(***************************************************************************)
(* File contents.  A file holds JSON text (the parsed document), CSV text  *)
(* (header and rows), a journal (its records), image bytes, or text that   *)
(* is neither JSON nor CSV.                                                *)
(***************************************************************************)
JsonData(doc) == [t |-> "json", doc |-> doc]
CsvData(header, rows) == [t |-> "csv", header |-> header, rows |-> rows]
JournalData(records) == [t |-> "journal", records |-> records]
ImageData(id) == [t |-> "image", id |-> id]
GarbageData == [t |-> "garbage"]

\* JSON documents
JArray(items) == [t |-> "array", items |-> items]
JObject(fields) == [t |-> "object", fields |-> fields]
\* a str object: a JSON string of n characters, or a key of a JSON object
JString(n) == [t |-> "string", n |-> n]
JKey(k) == [t |-> "key", k |-> k]
JNumber == [t |-> "number"]
JBool == [t |-> "boolean"]
JNull == [t |-> "null"]

\* the sequence of the keys of a JSON object (dict iteration)
RECURSIVE KeySeq(_)
KeySeq(K) == IF K = {} THEN <<>> ELSE LET k == CHOOSE x \in K : TRUE
                                      IN  <<JKey(k)>> \o KeySeq(K \ {k})

\* open(file_path, "r") followed by json.load(file)
JsonLoad(f, p) ==
    IF ~Exists(f, p) THEN Raise("FileNotFoundError")
    ELSE IF IsDir(f, p) THEN Raise("IsADirectoryError")
    ELSE IF f[p].data.t # "json" THEN Raise("JSONDecodeError")
    ELSE Ok(f[p].data.doc)

\* iter(data): what  "for entry in data"  walks over
Iterate(data) ==
    CASE data.t = "array" -> Ok(data.items)
      [] data.t = "object" -> Ok(KeySeq(DOMAIN data.fields))
      [] data.t = "string" -> Ok([k \in 1..data.n |-> JString(1)])
      [] OTHER -> Raise("TypeError")

\* entry[key]
GetItem(entry, key) ==
    IF entry.t # "object" THEN Raise("TypeError")
    ELSE IF key \notin DOMAIN entry.fields THEN Raise("KeyError")
    ELSE Ok(entry.fields[key])

\* the comprehension, were each retained entry put after the later ones
RECURSIVE ListCompReversed(_, _, _)
ListCompReversed(items, start, end) ==
    IF Len(items) = 0 THEN Ok(<<>>)
    ELSE LET entry == Head(items)
             ts == GetItem(entry, "ts")
             d == IF ts.ok THEN Strptime(ts.val, TsFormat) ELSE ts
             rest == IF d.ok THEN ListCompReversed(Tail(items), start, end) ELSE d
         IN  IF ~rest.ok THEN rest
             ELSE IF InRange(start, d.val, end)
                    THEN Ok(rest.val \o <<entry>>)
                    ELSE rest

\* [entry for entry in items if start <= strptime(entry["ts"], TsFormat) <= end]
RECURSIVE ListComp(_, _, _)
ListComp(items, start, end) ==
    IF Len(items) = 0 THEN Ok(<<>>)
    ELSE LET entry == Head(items)
             ts == GetItem(entry, "ts")
             d == IF ts.ok THEN Strptime(ts.val, TsFormat) ELSE ts
             rest == IF d.ok THEN ListComp(Tail(items), start, end) ELSE d
         IN  IF ~rest.ok THEN rest
             ELSE IF InRange(start, d.val, end)
                    THEN Ok(<<entry>> \o rest.val)
                    ELSE rest

\* filter_spotify_data(file_path, start_date, end_date) on filesystem f
filter_spotify_data(f, file_path, sd, ed) ==
    LET start == Strptime(sd, DateFormat)
        end == IF start.ok THEN Strptime(ed, DateFormat) ELSE start
        data == IF end.ok THEN JsonLoad(f, file_path) ELSE end
        items == IF data.ok THEN Iterate(data.val) ELSE data
    IN  IF ~items.ok THEN items ELSE ListComp(items.val, start.val, end.val)

(***************************************************************************)
(* The journal exporter                                                    *)
(***************************************************************************)
JournalKeys == <<"ts", "master_metadata_track_name", "master_metadata_album_artist_name",
                 "master_metadata_album_album_name", "platform", "ms_played">>

\* the six-line record of one entry, or KeyError at the first key it lacks
JournalEntry(entry) ==
    LET lacking == {k \in 1..Len(JournalKeys) : ~GetItem(entry, JournalKeys[k]).ok}
    IN  IF lacking # {}
          THEN GetItem(entry, JournalKeys[CHOOSE k \in lacking : \A j \in lacking : k <= j])
          ELSE Ok([Date |-> entry.fields["ts"],
                   Track |-> entry.fields["master_metadata_track_name"],
                   Artist |-> entry.fields["master_metadata_album_artist_name"],
                   Album |-> entry.fields["master_metadata_album_album_name"],
                   Platform |-> entry.fields["platform"],
                   TimePlayed |-> entry.fields["ms_played"]])

\* the records written before the loop ends or raises:
\* [written |-> the records in the file, exc |-> "" or the exception raised]
RECURSIVE WriteEntries(_)
WriteEntries(entries) ==
    IF Len(entries) = 0 THEN [written |-> <<>>, exc |-> ""]
    ELSE LET je == JournalEntry(Head(entries))
         IN  IF ~je.ok THEN [written |-> <<>>, exc |-> je.exc]
             ELSE LET rest == WriteEntries(Tail(entries))
                  IN  [written |-> <<je.val>> \o rest.written, exc |-> rest.exc]

\* f"{d}" for a date string d
DateText(d) ==
    CASE d = <<2023, 12, 24>> -> "2023-12-24"
      [] d = <<2023, 12, 25>> -> "2023-12-25"
      [] d = <<2023, 12, 31>> -> "2023-12-31"
      [] OTHER -> "?"

\* f"spotify_journal_{start_date}_to_{end_date}.txt"
JournalName(sd, ed) == <<"spotify_journal_", DateText(sd), "_to_", DateText(ed), ".txt">>

\* save_spotify_data_for_journaling(filtered_data, output_dir, start_date, end_date):
\* the filesystem it leaves, what it prints, and the exception it raises ("" if none)
save_spotify_data_for_journaling(f, filtered_data, output_dir, sd, ed) ==
    LET made == Makedirs(f, output_dir)
        output_file == Join(output_dir, JournalName(sd, ed))
        w == WriteEntries(filtered_data)
        opened == IF made.ok THEN WriteFile(made.val, output_file, JournalData(w.written))
                             ELSE made
    IN  IF ~made.ok THEN [fs |-> f, out |-> <<>>, exc |-> made.exc, file |-> <<>>]
        ELSE IF ~opened.ok THEN [fs |-> made.val, out |-> <<>>, exc |-> opened.exc, file |-> <<>>]
        ELSE [fs |-> opened.val,
              out |-> IF w.exc = "" THEN <<<<"Journal-ready Spotify data saved to", output_file>>>>
                                    ELSE <<>>,
              exc |-> w.exc,
              file |-> output_file]

(***************************************************************************)
(* The tabular filter                                                      *)
(***************************************************************************)
NaT == <<>>

\* pd.read_csv(file_path)
ReadCsv(f, p) ==
    IF ~Exists(f, p) THEN Raise("FileNotFoundError")
    ELSE IF IsDir(f, p) THEN Raise("IsADirectoryError")
    ELSE IF f[p].data.t # "csv" THEN Raise("ParserError")
    ELSE Ok(f[p].data)

\* pd.to_datetime on one cell: a date or a timestamp parses, an empty cell is NaT
ToDatetime(cell) ==
    IF Len(cell) = 0 THEN Ok(NaT)
    ELSE IF Len(cell) = 3 /\ ValidDate(cell) THEN Ok(<<cell[1], cell[2], cell[3], 0, 0, 0>>)
    ELSE IF Len(cell) = 6 /\ ValidDate(cell) /\ ValidTime(cell) THEN Ok(cell)
    ELSE Raise("DateParseError")

\* filter_data_by_date(file_path, start_date, end_date, date_column)
filter_data_by_date(f, file_path, sd, ed, date_column) ==
    LET data == ReadCsv(f, file_path)
        hasColumn == data.ok /\ \E k \in 1..Len(data.val.header) : data.val.header[k] = date_column
        badCell == hasColumn /\ \E k \in 1..Len(data.val.rows) :
                                    ~ToDatetime(data.val.rows[k][date_column]).ok
        start == Strptime(sd, DateFormat)
        end == Strptime(ed, DateFormat)
        parsed == [k \in 1..Len(data.val.rows) |->
                     [data.val.rows[k] EXCEPT ![date_column] = ToDatetime(@).val]]
        keep(row) == /\ row[date_column] # NaT
                     /\ InRange(start.val, row[date_column], end.val)
    IN  IF ~data.ok THEN data
        ELSE IF ~hasColumn THEN Raise("KeyError")
        ELSE IF badCell THEN Raise("DateParseError")
        ELSE IF ~start.ok THEN start
        ELSE IF ~end.ok THEN end
        ELSE Ok([header |-> data.val.header, column |-> date_column,
                 rows |-> SelectSeq(parsed, keep)])

\* how DataFrame.to_csv prints a datetime: the date alone when every value of the
\* column is at midnight, the full timestamp otherwise
FormatColumn(frame) ==
    LET c == frame.column
        datesOnly == \A k \in 1..Len(frame.rows) :
                        SubSeq(frame.rows[k][c], 4, 6) = <<0, 0, 0>>
    IN  [k \in 1..Len(frame.rows) |->
           [frame.rows[k] EXCEPT ![c] = IF datesOnly THEN SubSeq(@, 1, 3) ELSE @]]

\* filtered_data.to_csv(output_path, index=False)
ToCsv(f, frame, output_path) ==
    WriteFile(f, output_path, CsvData(frame.header, FormatColumn(frame)))

(***************************************************************************)
(* The inputs the model draws from.                                        *)
(***************************************************************************)
D24 == <<2023, 12, 24>>
D25 == <<2023, 12, 25>>
D31 == <<2023, 12, 31>>

\* an environment value: unset (None), or set to a path ("" is the empty path)
Unset == [set |-> FALSE, path |-> <<>>]
Set(p) == [set |-> TRUE, path |-> p]
Falsy(v) == ~v.set \/ v.path = <<>>

\* directories and files
DataDir == <<<<"data">>>>
OutDir == <<<<"out">>>>
NewOutDir == <<<<"export">>, <<"week52">>>>
SpotifyDir == <<<<"spotify">>>>
ShotsDir == <<<<"shots">>>>
Nowhere == <<<<"nowhere">>>>
LogPath == Join(DataDir, <<"log", ".json">>)

\* a Spotify log entry with every field the exporter prints, and one it does not
Full(ts, track) ==
    JObject([ts |-> ts,
             master_metadata_track_name |-> track,
             master_metadata_album_artist_name |-> "artist",
             master_metadata_album_album_name |-> "album",
             platform |-> "ios",
             ms_played |-> 1000,
             conn_country |-> "US"])

EStart == Full(<<2023, 12, 24, 0, 0, 0>>, "a")
EInside == Full(<<2023, 12, 25, 12, 0, 0>>, "b")
EEndMidnight == Full(<<2023, 12, 31, 0, 0, 0>>, "c")
EEndOfDay == Full(<<2023, 12, 31, 23, 59, 59>>, "d")
EBefore == Full(<<2023, 12, 20, 8, 30, 0>>, "e")
EAfter == Full(<<2024, 1, 2, 0, 0, 1>>, "f")
\* entries that lack optional fields
ENoTrack == JObject([ts |-> <<2023, 12, 25, 12, 0, 1>>,
                     master_metadata_album_artist_name |-> "artist",
                     master_metadata_album_album_name |-> "album",
                     platform |-> "ios",
                     ms_played |-> 1000])
EOnlyTs == JObject([ts |-> <<2023, 12, 26, 7, 0, 0>>])
\* entries without a well-formed ts
ENoTs == JObject([master_metadata_track_name |-> "g", platform |-> "ios", ms_played |-> 5])
EBadTs == JObject([ts |-> <<2023, 12, 25>>, master_metadata_track_name |-> "h"])

Entries == {EStart, EInside, EEndMidnight, EEndOfDay, EBefore, EAfter,
            ENoTrack, EOnlyTs, ENoTs, EBadTs}

SeqsUpTo(S, n) == UNION {[1..k -> S] : k \in 0..n}

\* what the log file may hold
LogContents ==
    {JsonData(JArray(a)) : a \in SeqsUpTo(Entries, MaxEntries)}
    \cup {JsonData(d) : d \in {JObject(<<>>), EInside, JString(0), JString(2),
                               JNumber, JBool, JNull}}
    \cup {GarbageData}

Ranges == {<<D24, D31>>, <<D25, D25>>, <<D31, D24>>}

World(f, e, src, range) ==
    [fs |-> f, env |-> e, sources |-> src, start_date |-> range[1], end_date |-> range[2]]

NoEnv == [SPOTIFY_DATA_PATH |-> Unset, SCREENSHOTS_PATH |-> Unset, OUTPUT_PATH |-> Unset]

\* a filesystem from a set of directories and a function from file paths to nodes
Tree(dirs, files) == [d \in dirs |-> DirNode] @@ files

\* worlds for calling filter_spotify_data and the exporter directly
FilterWorlds ==
    {World(Tree({DataDir}, LogPath :> FileNode(c, Now)), NoEnv, <<>>, r) :
        c \in LogContents, r \in Ranges}

\* worlds for process_data_sources
GoodPath == Join(DataDir, <<"health", ".csv">>)
BadPath == Join(DataDir, <<"notes", ".csv">>)
MissingPath == Join(DataDir, <<"gone", ".csv">>)
Out1 == Join(OutDir, <<"first", "_filtered", ".csv">>)
Out2 == Join(OutDir, <<"second", "_filtered", ".csv">>)

GoodCsv ==
    CsvData(<<"date", "note">>,
            << [date |-> <<2023, 12, 20>>, note |-> "n1"],
               [date |-> D24, note |-> "n2"],
               [date |-> D25, note |-> "n3"],
               [date |-> <<>>, note |-> "n4"],
               [date |-> D31, note |-> "n5"],
               [date |-> <<2024, 1, 2>>, note |-> "n6"] >>)

BadCsv ==
    CsvData(<<"date", "note">>,
            << [date |-> D25, note |-> "n1"],
               [date |-> <<25, 12>>, note |-> "n2"] >>)

TabularFs ==
    Tree({DataDir, OutDir},
         GoodPath :> FileNode(GoodCsv, Now) @@ BadPath :> FileNode(BadCsv, Now))

Triples == {GoodPath, BadPath, MissingPath} \X {"date", "when"} \X {Out1, Out2}

TabularWorlds ==
    {World(TabularFs, NoEnv, src, <<D24, D31>>) : src \in SeqsUpTo(Triples, MaxSources)}

\* worlds for process_spotify_data
AudioA == <<"Streaming_History_Audio", "_2022-2023_0", ".json">>
AudioB == <<"Streaming_History_Audio", "_2023_1", ".json">>
Video == <<"Streaming_History_Video", "_2023", ".json">>

PathValues(dir) == {Unset, Set(<<>>), Set(dir), Set(Nowhere)}
OutputValues == {Unset, Set(<<>>), Set(OutDir), Set(NewOutDir)}

BatchContents ==
    {JsonData(JArray(<<EStart, EBefore>>)), JsonData(JArray(<<EEndMidnight>>)),
     JsonData(JArray(<<EBadTs>>)), JsonData(JArray(<<ENoTrack>>)), GarbageData}

\* the files of directory dir: names maps each name present to its node
FilesIn(dir, names) == [q \in {Join(dir, n) : n \in DOMAIN names} |-> names[Basename(q)]]

SpotifyFs ==
    {Tree({SpotifyDir, OutDir},
          FilesIn(SpotifyDir, present @@ Video :> FileNode(JsonData(JArray(<<EInside>>)), Now))) :
        present \in UNION {[S -> {FileNode(c, Now) : c \in BatchContents}] :
                              S \in SUBSET {AudioA, AudioB}}}

SpotifyWorlds ==
    {World(f, [NoEnv EXCEPT !.SPOTIFY_DATA_PATH = sp, !.OUTPUT_PATH = od], <<>>, r) :
        f \in SpotifyFs, sp \in PathValues(SpotifyDir), od \in OutputValues,
        r \in {<<D24, D31>>, <<D25, D25>>}}

\* worlds for process_screenshots
Shot1 == <<"shot1", ".png">>
Shot2 == <<"shot2", ".png">>
Shot9 == <<"shot9", ".png">>
OldDir == Join(ShotsDir, <<"old">>)
ShotsOut(dir) == Join(dir, <<"screenshots">>)

Mtimes == {Timestamp(d) : d \in {<<2023, 12, 23, 23, 59, 59>>, <<2023, 12, 24, 0, 0, 0>>,
                                 <<2023, 12, 25, 12, 0, 0>>, <<2023, 12, 31, 0, 0, 0>>,
                                 <<2023, 12, 31, 12, 0, 0>>}}

ShotsFs ==
    {Tree({ShotsDir, OldDir, OutDir, ShotsOut(OutDir)},
          FilesIn(ShotsDir, present)
          @@ Join(OldDir, Shot1) :> FileNode(ImageData("old"), Timestamp(<<2023, 12, 25, 12, 0, 0>>))
          @@ Join(ShotsOut(OutDir), Shot9) :> FileNode(ImageData("shot9"), Now)) :
        present \in UNION {[S -> {FileNode(ImageData("new"), m) : m \in Mtimes}] :
                              S \in SUBSET {Shot1, Shot2}}}

ShotsWorlds ==
    {World(f, [NoEnv EXCEPT !.SCREENSHOTS_PATH = sp, !.OUTPUT_PATH = od], <<>>, r) :
        f \in ShotsFs, sp \in PathValues(ShotsDir), od \in OutputValues,
        r \in {<<D24, D31>>, <<D24, D25>>}}

Worlds == FilterWorlds \cup TabularWorlds \cup SpotifyWorlds \cup ShotsWorlds

Init ==
    /\ \E w \in Worlds :
          /\ fs = w.fs
          /\ fs0 = w.fs
          /\ env = w.env
          /\ sources = w.sources
          /\ start_date = w.start_date
          /\ end_date = w.end_date
    /\ op = ""
    /\ pc = "ready"
    /\ listing = <<>>
    /\ i = 0
    /\ result = <<>>
    /\ exc = ""
    /\ stdout = <<>>
    /\ written = <<>>

Inputs == <<env, sources, start_date, end_date, fs0>>

\* leave the function: by return, or by the exception e
Leave(e) == /\ pc' = IF e = "" THEN "returned" ELSE "raised"
            /\ exc' = e

\* the end of one pass through the loop body
NextItem == /\ IF i = Len(listing) THEN pc' = "returned" /\ i' = i
                                   ELSE pc' = "loop" /\ i' = i + 1
            /\ exc' = exc

(***************************************************************************)
(* filter_spotify_data and save_spotify_data_for_journaling, called        *)
(* directly                                                                *)
(***************************************************************************)
CallFilterSpotifyData ==
    /\ pc = "ready"
    /\ \E file_path \in {LogPath} :
          LET r == filter_spotify_data(fs, file_path, start_date, end_date)
          IN  /\ result' = r.val
              /\ Leave(r.exc)
    /\ op' = "filter_spotify_data"
    /\ UNCHANGED <<fs, Inputs, listing, i, stdout, written>>

CallSaveSpotifyData ==
    /\ op = "filter_spotify_data"
    /\ pc = "returned"
    /\ \E output_dir \in {OutDir} :
          LET r == save_spotify_data_for_journaling(fs, result, output_dir,
                                                    start_date, end_date)
          IN  /\ fs' = r.fs
              /\ stdout' = stdout \o r.out
              /\ written' = IF r.file = <<>> THEN written
                            ELSE Append(written, [item |-> 0, path |-> r.file])
              /\ Leave(r.exc)
    /\ op' = "save_spotify_data_for_journaling"
    /\ UNCHANGED <<Inputs, listing, i, result>>

(***************************************************************************)
(* process_data_sources                                                    *)
(***************************************************************************)
CallProcessDataSources ==
    /\ pc = "ready"
    /\ op' = "process_data_sources"
    /\ listing' = sources
    /\ IF Len(sources) = 0 THEN pc' = "returned" /\ i' = 0
                           ELSE pc' = "loop" /\ i' = 1
    /\ UNCHANGED <<fs, Inputs, result, exc, stdout, written>>

\* one pass through the loop body, for the triple listing[i]
StepProcessDataSources ==
    /\ op = "process_data_sources"
    /\ pc = "loop"
    /\ LET file_path == listing[i][1]
           date_column == listing[i][2]
           output_path == listing[i][3]
           filtered_data == filter_data_by_date(fs, file_path, start_date, end_date,
                                                date_column)
           saved == IF filtered_data.ok THEN ToCsv(fs, filtered_data.val, output_path)
                                        ELSE filtered_data
       IN  IF ~Exists(fs, file_path)
             THEN /\ stdout' = Append(stdout, <<"File not found", file_path>>)
                  /\ NextItem
                  /\ UNCHANGED <<fs, written>>
           ELSE IF ~saved.ok
             THEN /\ stdout' = Append(stdout, <<"Processing file", file_path>>)
                  /\ Leave(saved.exc)
                  /\ UNCHANGED <<fs, i, written>>
           ELSE /\ stdout' = stdout \o << <<"Processing file", file_path>>,
                                          <<"Filtered data saved to", output_path>> >>
                /\ fs' = saved.val
                /\ written' = Append(written, [item |-> i, path |-> output_path])
                /\ NextItem
    /\ UNCHANGED <<Inputs, op, listing, result>>

(***************************************************************************)
(* process_spotify_data                                                    *)
(***************************************************************************)
\* os.listdir(p)
Listdir(f, p) ==
    IF ~Exists(f, p) THEN Raise("FileNotFoundError")
    ELSE IF ~IsDir(f, p) THEN Raise("NotADirectoryError")
    ELSE Ok(ListdirNames(f, p))

\* the test, were the existence of the path left out
SourceGivenOnly(v, f) == ~Falsy(v)

\* the source path is given and exists
SourceUsable(v, f) == ~Falsy(v) /\ Exists(f, v.path)

\* file_name.startswith("Streaming_History_Audio") and file_name.endswith(".json")
MatchesConvention(file_name) ==
    /\ Len(file_name) > 0
    /\ file_name[1] = "Streaming_History_Audio"
    /\ file_name[Len(file_name)] = ".json"

\* the lines up to the loop, shared by both directory scans: the early returns,
\* the makedirs of target, the listing of the source directory
EnterScan(source, target, notFound, parsesDates) ==
    IF ~SourceUsable(source, fs)
      THEN /\ stdout' = Append(stdout, <<notFound, <<>>>>)
           /\ Leave("")
           /\ UNCHANGED <<fs, listing, i>>
    ELSE IF Falsy(env.OUTPUT_PATH)
      THEN /\ stdout' = Append(stdout, <<"Output path not specified in .env file.", <<>>>>)
           /\ Leave("")
           /\ UNCHANGED <<fs, listing, i>>
    ELSE LET made == Makedirs(fs, target)
             start == Strptime(start_date, DateFormat)
             end == IF start.ok THEN Strptime(end_date, DateFormat) ELSE start
             names == IF parsesDates /\ ~end.ok THEN end ELSE Listdir(made.val, source.path)
         IN  IF ~made.ok
               THEN /\ Leave(made.exc)
                    /\ UNCHANGED <<fs, listing, i, stdout>>
             ELSE IF ~names.ok
               THEN /\ fs' = made.val
                    /\ Leave(names.exc)
                    /\ UNCHANGED <<listing, i, stdout>>
             ELSE /\ fs' = made.val
                  /\ \E order \in Perms(names.val) : listing' = order
                  /\ IF names.val = {} THEN pc' = "returned" /\ i' = 0
                                       ELSE pc' = "loop" /\ i' = 1
                  /\ UNCHANGED <<exc, stdout>>

CallProcessSpotifyData ==
    /\ pc = "ready"
    /\ op' = "process_spotify_data"
    /\ EnterScan(env.SPOTIFY_DATA_PATH, env.OUTPUT_PATH.path,
                 "Spotify data path not found or not specified in .env file.", FALSE)
    /\ UNCHANGED <<Inputs, result, written>>

\* one pass through the loop body, for the name listing[i]
StepProcessSpotifyData ==
    /\ op = "process_spotify_data"
    /\ pc = "loop"
    /\ LET file_name == listing[i]
           file_path == Join(env.SPOTIFY_DATA_PATH.path, file_name)
           filtered_data == filter_spotify_data(fs, file_path, start_date, end_date)
           saved == save_spotify_data_for_journaling(fs, filtered_data.val,
                                                     env.OUTPUT_PATH.path,
                                                     start_date, end_date)
       IN  IF ~MatchesConvention(file_name)
             THEN /\ NextItem
                  /\ UNCHANGED <<fs, stdout, written>>
           ELSE IF ~filtered_data.ok
             THEN /\ stdout' = Append(stdout, <<"Processing Spotify file", file_path>>)
                  /\ Leave(filtered_data.exc)
                  /\ UNCHANGED <<fs, i, written>>
           ELSE /\ stdout' = Append(stdout, <<"Processing Spotify file", file_path>>) \o saved.out
                /\ fs' = saved.fs
                /\ written' = IF saved.file = <<>> THEN written
                              ELSE Append(written, [item |-> i, path |-> saved.file])
                /\ IF saved.exc = "" THEN NextItem
                                     ELSE Leave(saved.exc) /\ i' = i
    /\ UNCHANGED <<Inputs, op, listing, result>>

(***************************************************************************)
(* process_screenshots                                                     *)
(***************************************************************************)
\* what can go wrong inside the try block for one file, and the exception it raises
Faults == [getmtime |-> "FileNotFoundError", fromtimestamp |-> "OverflowError",
           copy |-> "PermissionError"]

\* the handler, were it  except OSError
ExceptOSError(e) == e \in {"FileNotFoundError", "PermissionError", "OSError"}

\* except Exception: every fault above is an Exception
ExceptException(e) == TRUE

\* shutil.copy(file_path, dir): the copy keeps the name and the bytes, not the mtime
ShutilCopy(f, file_path, dir) ==
    WriteFile(f, Join(dir, Basename(file_path)), f[file_path].data)

CallProcessScreenshots ==
    /\ pc = "ready"
    /\ op' = "process_screenshots"
    /\ EnterScan(env.SCREENSHOTS_PATH, ShotsOut(env.OUTPUT_PATH.path),
                 "Screenshots path not found or not specified in .env file.", TRUE)
    /\ UNCHANGED <<Inputs, result, written>>

\* one pass through the loop body, for the name listing[i]; fault names the call of
\* the try block that fails in this pass ("none": no call fails)
StepProcessScreenshots ==
    /\ op = "process_screenshots"
    /\ pc = "loop"
    /\ LET file_name == listing[i]
           file_path == Join(env.SCREENSHOTS_PATH.path, file_name)
           screenshots_output_dir == ShotsOut(env.OUTPUT_PATH.path)
           start == Strptime(start_date, DateFormat).val
           end == Strptime(end_date, DateFormat).val
           file_date == FromTimestamp(fs[file_path].mtime)
           inRange == InRange(start, file_date, end)
           copied == ShutilCopy(fs, file_path, screenshots_output_dir)
           handle(e) == IF ExceptException(e)
                          THEN /\ stdout' = Append(stdout, <<"Error processing file", <<file_name>>>>)
                               /\ NextItem
                               /\ UNCHANGED <<fs, written>>
                          ELSE /\ Leave(e)
                               /\ UNCHANGED <<fs, i, stdout, written>>
       IN  IF ~IsFile(fs, file_path)
             THEN /\ NextItem
                  /\ UNCHANGED <<fs, stdout, written>>
             ELSE \E fault \in {"none", "getmtime", "fromtimestamp", "copy"} :
                    CASE fault \in {"getmtime", "fromtimestamp"} -> handle(Faults[fault])
                      [] fault = "copy" -> inRange /\ handle(Faults[fault])
                      [] fault = "none" ->
                           IF ~inRange
                             THEN /\ NextItem
                                  /\ UNCHANGED <<fs, stdout, written>>
                           ELSE IF ~copied.ok THEN handle(copied.exc)
                           ELSE /\ fs' = copied.val
                                /\ stdout' = Append(stdout, <<"Copied screenshot", <<file_name>>>>)
                                /\ written' = Append(written,
                                      [item |-> i, path |-> Join(screenshots_output_dir, file_name)])
                                /\ NextItem
    /\ UNCHANGED <<Inputs, op, listing, result>>

Next ==
    \/ CallFilterSpotifyData
    \/ CallSaveSpotifyData
    \/ CallProcessDataSources
    \/ StepProcessDataSources
    \/ CallProcessSpotifyData
    \/ StepProcessSpotifyData
    \/ CallProcessScreenshots
    \/ StepProcessScreenshots

Spec == Init /\ [][Next]_vars

(***************************************************************************)
(* The properties.  They speak of ranges in seconds, not field by field.   *)
(***************************************************************************)
Terminal == pc \in {"returned", "raised"}
Printed(msg) == \E k \in 1..Len(stdout) : stdout[k] = msg
WrittenFor(k, p) == \E n \in 1..Len(written) : written[n] = [item |-> k, path |-> p]

\* the instant <<Y,M,D,h,m,s>> in seconds
Ordinal(d) == Timestamp(d)
Midnight(date) == <<date[1], date[2], date[3], 0, 0, 0>>
\* instant t lies within [start_date, end_date], both taken at 00:00:00
WithinRange(t) == /\ Ordinal(Midnight(start_date)) <= Ordinal(t)
                  /\ Ordinal(t) <= Ordinal(Midnight(end_date))

WellFormedTs(e) == /\ e.t = "object"
                   /\ "ts" \in DOMAIN e.fields
                   /\ Len(e.fields.ts) = 6
WellFormedArray(f, p) == /\ IsFile(f, p)
                         /\ f[p].data.t = "json"
                         /\ f[p].data.doc.t = "array"
                         /\ \A k \in 1..Len(f[p].data.doc.items) :
                               WellFormedTs(f[p].data.doc.items[k])
Retained(e) == WithinRange(e.fields.ts)
HasTs(entries, ts) == \E k \in 1..Len(entries) : entries[k].fields.ts = ts

\* the triple reads an existing file that the tabular filter rejects / accepts
MalformedTriple(t) ==
    Exists(fs0, t[1]) /\ ~filter_data_by_date(fs0, t[1], start_date, end_date, t[2]).ok
WellFormedTriple(t) ==
    Exists(fs0, t[1]) /\ filter_data_by_date(fs0, t[1], start_date, end_date, t[2]).ok

\* the log file named listing[k] of a process_spotify_data run
LogFile(k) == Join(env.SPOTIFY_DATA_PATH.path, listing[k])
MalformedLog(k) == /\ MatchesConvention(listing[k])
                   /\ ~WellFormedArray(fs0, LogFile(k))
WellFormedLog(k) == /\ MatchesConvention(listing[k])
                    /\ WellFormedArray(fs0, LogFile(k))
                    /\ \A n \in 1..Len(fs0[LogFile(k)].data.doc.items) :
                          \A key \in 1..Len(JournalKeys) :
                             JournalKeys[key] \in DOMAIN fs0[LogFile(k)].data.doc.items[n].fields
JournalPath == Join(env.OUTPUT_PATH.path, JournalName(start_date, end_date))

\* C1: in process_data_sources and process_spotify_data a malformed item is isolated:
\* when the batch ends, every well-formed item that comes after a malformed one has
\* been processed and its output written.
C1_MalformedItemIsolated ==
    /\ (op = "process_data_sources" /\ Terminal) =>
          \A j, k \in 1..Len(listing) :
             (j < k /\ MalformedTriple(listing[j]) /\ WellFormedTriple(listing[k]))
                => WrittenFor(k, listing[k][3])
    /\ (op = "process_spotify_data" /\ Terminal /\ i >= 1) =>
          \A j, k \in 1..Len(listing) :
             (j < k /\ MalformedLog(j) /\ WellFormedLog(k)) => WrittenFor(k, JournalPath)

\* C2: when process_data_sources ends, every triple whose file is missing was skipped
\* with a notice and wrote nothing, and every triple whose file exists and is
\* well-formed was filtered and written to its output path, wherever the missing
\* triples sit.
C2_MissingSkippedOthersWritten ==
    (op = "process_data_sources" /\ Terminal) =>
       \A k \in 1..Len(listing) :
          /\ ~Exists(fs0, listing[k][1]) =>
                /\ Printed(<<"File not found", listing[k][1]>>)
                /\ \A n \in 1..Len(written) : written[n].item # k
          /\ WellFormedTriple(listing[k]) =>
                /\ WrittenFor(k, listing[k][3])
                /\ IsFile(fs, listing[k][3])
                /\ fs[listing[k][3]].data.t = "csv"

\* C3: on a well-formed array filter_spotify_data returns exactly the entries whose ts
\* lies within [start, end], in input order, unaltered.
C3_ExactOrderedSubsequence ==
    (op = "filter_spotify_data" /\ Terminal /\ WellFormedArray(fs0, LogPath)) =>
       /\ pc = "returned"
       /\ result = SelectSeq(fs0[LogPath].data.doc.items, Retained)

C3_Witness ==
    /\ op = "filter_spotify_data"
    /\ pc = "returned"
    /\ WellFormedArray(fs0, LogPath)
    /\ Len(fs0[LogPath].data.doc.items) = 2
    /\ Len(result) = 1
    /\ result[1] = fs0[LogPath].data.doc.items[2]

TsStartOfRange == <<2023, 12, 24, 0, 0, 0>>
TsLastSecond == <<2023, 12, 31, 23, 59, 59>>
\* the scenario: range [2023-12-24, 2023-12-31], a log with both boundary entries
BoundaryScenario ==
    /\ op = "filter_spotify_data"
    /\ pc = "returned"
    /\ start_date = D24
    /\ end_date = D31
    /\ WellFormedArray(fs0, LogPath)
    /\ HasTs(fs0[LogPath].data.doc.items, TsStartOfRange)
    /\ HasTs(fs0[LogPath].data.doc.items, TsLastSecond)

\* C4 as claimed: in the boundary scenario the entries at 2023-12-24T00:00:00Z and
\* 2023-12-31T23:59:59Z are both retained or both dropped.
C4_OnePolicyForBothEndpoints ==
    BoundaryScenario => (HasTs(result, TsStartOfRange) <=> HasTs(result, TsLastSecond))

\* C4 as amended: both endpoints are taken at 00:00:00 and compared inclusively, so
\* in the boundary scenario the entry at 2023-12-24T00:00:00Z is retained and the
\* entry at 2023-12-31T23:59:59Z is dropped.
C4_StartKeptLastSecondDropped ==
    BoundaryScenario => (HasTs(result, TsStartOfRange) /\ ~HasTs(result, TsLastSecond))

C4_Witness == BoundaryScenario /\ Len(result) = 1

\* C5: save_spotify_data_for_journaling, given entries that each carry ts, returns
\* and leaves one record per entry, in input order, in the journal file.
C5_ExporterToleratesMissingFields ==
    (op = "save_spotify_data_for_journaling" /\ Terminal) =>
       LET file == Join(OutDir, JournalName(start_date, end_date))
       IN  /\ pc = "returned"
           /\ IsFile(fs, file)
           /\ Len(fs[file].data.records) = Len(result)
           /\ \A k \in 1..Len(result) : fs[file].data.records[k].Date = result[k].fields.ts

\* C6: when process_spotify_data returns, each matching file has its own journal
\* output: for every matching file some journal file of the output directory holds
\* exactly the records exported for it, neither merged with nor replaced by another's.
C6_OneJournalPerLogFile ==
    (op = "process_spotify_data" /\ pc = "returned" /\ i >= 1) =>
       LET matching == {k \in 1..Len(listing) : MatchesConvention(listing[k])}
           journals == {p \in DOMAIN fs : /\ Parent(p) = env.OUTPUT_PATH.path
                                          /\ fs[p].kind = "file"
                                          /\ fs[p].data.t = "journal"}
           expected(k) == WriteEntries(
                             filter_spotify_data(fs0, LogFile(k), start_date, end_date).val
                          ).written
       IN  \A k \in matching : \E p \in journals : fs[p].data.records = expected(k)

\* process_screenshots: its source directory, its output subdirectory, its files
ShotsSource == env.SCREENSHOTS_PATH.path
ShotsTarget == ShotsOut(env.OUTPUT_PATH.path)
ValidShotsConfig == /\ ~Falsy(env.SCREENSHOTS_PATH)
                    /\ IsDir(fs0, ShotsSource)
                    /\ ~Falsy(env.OUTPUT_PATH)
RegularInRange(n) ==
    /\ IsFile(fs0, Join(ShotsSource, n))
    /\ Ordinal(Midnight(start_date)) <= fs0[Join(ShotsSource, n)].mtime
    /\ fs0[Join(ShotsSource, n)].mtime <= Ordinal(Midnight(end_date))
Failed(n) == Printed(<<"Error processing file", <<n>>>>)
Copied(n) == /\ IsFile(fs, Join(ShotsTarget, n))
             /\ fs[Join(ShotsTarget, n)].data = fs0[Join(ShotsSource, n)].data
\* the files the output subdirectory holds now and did not hold before the call
Gained == {p \in DOMAIN fs : Parent(p) = ShotsTarget /\ p \notin DOMAIN fs0}

C8_FailureCaughtScanContinues ==
    (op = "process_screenshots" /\ i >= 1) =>
       /\ pc # "raised"
       /\ pc = "returned" =>
             \A k \in 1..Len(listing) :
                IsFile(fs0, Join(ShotsSource, listing[k])) =>
                   /\ RegularInRange(listing[k]) =>
                         \/ Failed(listing[k])
                         \/ /\ Printed(<<"Copied screenshot", <<listing[k]>>>>)
                            /\ Copied(listing[k])
                   /\ (~RegularInRange(listing[k]) /\ ~Failed(listing[k])) =>
                         Join(ShotsTarget, listing[k]) \notin Gained

C8_Witness ==
    /\ op = "process_screenshots"
    /\ pc = "returned"
    /\ \E j, k \in 1..Len(listing) :
          /\ j < k
          /\ Failed(listing[j])
          /\ ~Failed(listing[k])
          /\ Printed(<<"Copied screenshot", <<listing[k]>>>>)
          /\ Copied(listing[k])

\* C9: process_spotify_data and process_screenshots, when the source path value or the
\* output path value is absent or the source path does not exist, print one report,
\* return normally and leave the filesystem as it was.
NoEffectCase(source) ==
    Falsy(source) \/ Falsy(env.OUTPUT_PATH) \/ ~Exists(fs0, source.path)
Reports == {"Spotify data path not found or not specified in .env file.",
            "Screenshots path not found or not specified in .env file.",
            "Output path not specified in .env file."}
ReturnedWithoutEffect ==
    /\ pc = "returned"
    /\ fs = fs0
    /\ written = <<>>
    /\ Len(stdout) = 1
    /\ stdout[1][1] \in Reports

C9_BadConfigurationHasNoEffect ==
    /\ (op = "process_spotify_data" /\ NoEffectCase(env.SPOTIFY_DATA_PATH))
          => ReturnedWithoutEffect
    /\ (op = "process_screenshots" /\ NoEffectCase(env.SCREENSHOTS_PATH))
          => ReturnedWithoutEffect

C9_Witness ==
    /\ op \in {"process_spotify_data", "process_screenshots"}
    /\ pc = "returned"
    /\ env.OUTPUT_PATH = Set(NewOutDir)
    /\ Set(Nowhere) \in {env.SPOTIFY_DATA_PATH, env.SCREENSHOTS_PATH}
    /\ ReturnedWithoutEffect

\* C10: filter_spotify_data raises, and returns nothing, whenever the JSON document is
\* not an array (empty values included) or an entry of the array lacks a well-formed ts.
C10_NonArrayOrBadEntryRaises ==
    (/\ op = "filter_spotify_data"
     /\ Terminal
     /\ IsFile(fs0, LogPath)
     /\ fs0[LogPath].data.t = "json"
     /\ ~WellFormedArray(fs0, LogPath)) => pc = "raised"

====
